---- MODULE Spec2Model ----
(***************************************************************************)
(* Model of scripts/examples/automapper.py: the automapper's pending room  *)
(* observation (four module globals), its three trigger callbacks and the  *)
(* commit routine try_create_room.                                         *)
(*                                                                         *)
(* Encoding of Python values.  TLA+ strings are atomic and this toolchain  *)
(* accepts ASCII only, so a Python string is a sequence of character       *)
(* tokens: "5001" is <<"5","0","0","1">>, and a Cyrillic letter is a token *)
(* naming it ("RU_S" is the capital letter ES that marks a north exit,     *)
(* "ru_s" its lower case form, "v" the Latin v that marks a down exit).    *)
(* Python None is the value None below for strings and lists and NoneDir   *)
(* for a direction; [] and "" are both <<>>.                               *)
(*                                                                         *)
(* The host object `api` is outside the script: what the map store answers *)
(* during a callback is an input of that callback (the record `api`), and  *)
(* every call the script makes is appended to `calls`, everything it sends *)
(* to api.log / api.echo to `out`.                                         *)
(***************************************************************************)
EXTENDS Integers, Sequences, FiniteSets, TLC

VARIABLES
    pending_room_id,     \* automapper.py:10
    pending_room_name,   \* automapper.py:11
    pending_exits,       \* automapper.py:12
    last_direction,      \* automapper.py:13
    automapper_debug,    \* host variable "automapper_debug" read by is_debug
    event,               \* the callback that ran last and its captured groups
    api,                 \* what the map store answers during that callback
    calls,               \* map store calls issued by that callback, in order
    out,                 \* api.log / api.echo entries of that callback, in order
    hist                 \* history: what the lines delivered so far amount to

vars == <<pending_room_id, pending_room_name, pending_exits, last_direction,
          automapper_debug, event, api, calls, out, hist>>

-----------------------------------------------------------------------------
(* Python values *)

None == <<"None">>
NoneDir == "None"
PyTrue == <<"True">>
PyFalse == <<"False">>

\* Python truthiness of a str / list / None value: `if x:`
Truthy(x) == x # None /\ x # <<>>

RECURSIVE SeqsUpTo(_, _)
\* all sequences over alphabet A of length 0..n
SeqsUpTo(A, n) ==
    IF n = 0 THEN {<<>>}
    ELSE LET shorter == SeqsUpTo(A, n - 1)
         IN  shorter \cup {Append(s, c) : s \in {t \in shorter : Len(t) = n - 1}, c \in A}

Range(s) == {s[i] : i \in DOMAIN s}

-----------------------------------------------------------------------------
(* Direction tables *)

CanonicalDirection == {"north", "south", "east", "west", "up", "down"}

\* exit_chars: glyph -> direction (pairs of the dict literal)
exit_chars ==
    {<<"RU_S", "north">>, <<"ru_s", "north">>,
     <<"RU_YU", "south">>, <<"ru_yu", "south">>,
     <<"RU_Z", "west">>, <<"ru_z", "west">>,
     <<"RU_V", "east">>, <<"ru_v", "east">>,
     <<"^", "up">>,
     <<"v", "down">>}

\* exit_chars.get with the "^" and "v" entries of the table exchanged
exit_chars_get_swapped(char) ==
    IF char = "^" THEN "down"
    ELSE IF char = "v" THEN "up"
    ELSE IF \E p \in exit_chars : p[1] = char
         THEN (CHOOSE p \in exit_chars : p[1] = char)[2]
         ELSE NoneDir

\* dict.get(key): the value, or NoneDir when the key is absent
exit_chars_get(char) ==
    IF \E p \in exit_chars : p[1] = char
    THEN (CHOOSE p \in exit_chars : p[1] = char)[2]
    ELSE NoneDir

\* the six movement words, spelled in lower case letters
W_sever == <<"ru_s", "ru_e", "ru_v", "ru_e", "ru_r">>
W_yug == <<"ru_yu", "ru_g">>
W_zapad == <<"ru_z", "ru_a", "ru_p", "ru_a", "ru_d">>
W_vostok == <<"ru_v", "ru_o", "ru_s", "ru_t", "ru_o", "ru_k">>
W_vverh == <<"ru_v", "ru_v", "ru_e", "ru_r", "ru_h">>
W_vniz == <<"ru_v", "ru_n", "ru_i", "ru_z">>

\* directions: movement word -> direction
directions ==
    {<<W_sever, "north">>, <<W_yug, "south">>, <<W_zapad, "west">>,
     <<W_vostok, "east">>, <<W_vverh, "up">>, <<W_vniz, "down">>}

directions_get(word) ==
    IF \E p \in directions : p[1] = word
    THEN (CHOOSE p \in directions : p[1] = word)[2]
    ELSE NoneDir

\* upper case / lower case letter pairs of the letters the tables use
CasePairs ==
    {<<"RU_S", "ru_s">>, <<"RU_E", "ru_e">>, <<"RU_V", "ru_v">>, <<"RU_R", "ru_r">>,
     <<"RU_YU", "ru_yu">>, <<"RU_G", "ru_g">>, <<"RU_Z", "ru_z">>, <<"RU_A", "ru_a">>,
     <<"RU_P", "ru_p">>, <<"RU_D", "ru_d">>, <<"RU_O", "ru_o">>, <<"RU_T", "ru_t">>,
     <<"RU_K", "ru_k">>, <<"RU_H", "ru_h">>, <<"RU_N", "ru_n">>, <<"RU_I", "ru_i">>}

lower_char(c) ==
    IF \E p \in CasePairs : p[1] = c
    THEN (CHOOSE p \in CasePairs : p[1] = c)[2]
    ELSE c

\* the lookup made on the captured word as it came
lower_omitted(str) == str

\* str.lower()
lower(str) == [i \in DOMAIN str |-> lower_char(str[i])]

-----------------------------------------------------------------------------
(* str.strip(), int(), str(int) *)

IsSpace(c) == c \in {" ", "\t"}

RECURSIVE lstrip(_)
lstrip(str) ==
    IF str # <<>> /\ IsSpace(Head(str)) THEN lstrip(Tail(str)) ELSE str

RECURSIVE rstrip(_)
rstrip(str) ==
    IF str # <<>> /\ IsSpace(str[Len(str)])
    THEN rstrip(SubSeq(str, 1, Len(str) - 1))
    ELSE str

\* name.strip()
strip(str) == rstrip(lstrip(str))

Digits == <<"0", "1", "2", "3", "4", "5", "6", "7", "8", "9">>

IsDigit(c) == \E d \in DOMAIN Digits : Digits[d] = c

DigitValue(c) == (CHOOSE d \in DOMAIN Digits : Digits[d] = c) - 1

RECURSIVE DigitsValue(_)
DigitsValue(str) ==
    IF str = <<>> THEN 0
    ELSE 10 * DigitsValue(SubSeq(str, 1, Len(str) - 1)) + DigitValue(str[Len(str)])

\* whether int(str) returns (an optional sign, then one or more digits; the
\* ids drawn below hold no blanks or underscores)
int_parses(str) ==
    LET body == IF str # <<>> /\ Head(str) \in {"-", "+"} THEN Tail(str) ELSE str
    IN  body # <<>> /\ \A i \in DOMAIN body : IsDigit(body[i])

\* int(str), where it returns
int(str) ==
    IF Head(str) = "-" THEN 0 - DigitsValue(Tail(str))
    ELSE IF Head(str) = "+" THEN DigitsValue(Tail(str))
    ELSE DigitsValue(str)

RECURSIVE NatToStr(_)
NatToStr(n) ==
    IF n < 10 THEN <<Digits[n + 1]>>
    ELSE Append(NatToStr(n \div 10), Digits[(n % 10) + 1])

\* str(n) of an integer
str(n) == IF n < 0 THEN <<"-">> \o NatToStr(0 - n) ELSE NatToStr(n)

-----------------------------------------------------------------------------
(* The script's module state during a callback: the four globals plus the  *)
(* calls and sink entries made so far.                                     *)

Globals(id, name, exits, direction) ==
    [pending_room_id |-> id, pending_room_name |-> name,
     pending_exits |-> exits, last_direction |-> direction,
     calls |-> <<>>, out |-> <<>>]

\* the globals as the callback finds them (nothing called or written yet)
Current == Globals(pending_room_id, pending_room_name, pending_exits, last_direction)

Call(op, args, ret) == [op |-> op, args |-> args, ret |-> ret]

\* api.<op>(args), answering ret
api_call(g, op, args, ret) == [g EXCEPT !.calls = Append(@, Call(op, args, ret))]

Entry(chan, prefix, msg) == [chan |-> chan, prefix |-> prefix, msg |-> msg]

\* api.log("[PY] ...")
api_log(g, msg) == [g EXCEPT !.out = Append(@, Entry("log", "[PY]", msg))]

\* api.echo(prefix + ...)
api_echo(g, prefix, msg) == [g EXCEPT !.out = Append(@, Entry("echo", prefix, msg))]

is_debug == automapper_debug = "true" \/ automapper_debug = "1"

\* debug() without its is_debug() gate
debug_ungated(g, msg) == api_echo(g, "[Mapper DEBUG]", msg)

debug(g, msg) == IF is_debug THEN api_echo(g, "[Mapper DEBUG]", msg) ELSE g

-----------------------------------------------------------------------------
(* try_create_room *)

\* the exits guard written `is None` instead of `not`: an empty list passes
is_complete_any_exits(g) ==
    /\ Truthy(g.pending_room_id)
    /\ Truthy(g.pending_room_name)
    /\ g.pending_exits # None

\* the three early returns of try_create_room passed
is_complete(g) ==
    /\ Truthy(g.pending_room_id)
    /\ Truthy(g.pending_room_name)
    /\ Truthy(g.pending_exits)

\* zone_id with a division that truncates toward zero
zone_of_truncating(room_id) ==
    IF ~int_parses(room_id) THEN 0
    ELSE IF int(room_id) < 0 THEN 0 - ((0 - int(room_id)) \div 100)
    ELSE int(room_id) \div 100

\* zone_id: int(room_id) // 100, or 0 when int() raises
zone_of(room_id) == IF int_parses(room_id) THEN int(room_id) \div 100 ELSE 0

\* "zone_" + str(zone_id)
zone_label(zone_id) == <<"z", "o", "n", "e", "_">> \o str(zone_id)

\* handleMovement called with room_id and room_name exchanged
handle_movement_args_swapped(g) ==
    <<g.last_direction, g.pending_room_id, g.pending_exits, g.pending_room_name>>

\* the arguments of api.handleMovement(direction, room_name, pending_exits, room_id)
handle_movement_args(g) ==
    <<g.last_direction, g.pending_room_name, g.pending_exits, g.pending_room_id>>

\* the `if direction:` branch
movement_commit(g, answers, zone_id) ==
    LET room_id == g.pending_room_id
        room_name == g.pending_room_name
        g1 == api_log(g, "handle_movement")
        g2 == api_call(g1, "handleMovement", handle_movement_args(g), answers.room_info)
    IN  IF Truthy(answers.room_info)
        THEN api_echo(api_call(g2, "setRoomZone", <<room_id, zone_label(zone_id)>>, None),
                      "[Mapper]", "room")
        ELSE debug(g2, "handleMovement returned None")

\* current.get("id") failing on every handle: current_id is always None
current_id_never(current) == None

\* current_id as lines 85-90 compute it from what getCurrentRoom answered
current_id_of(current) ==
    IF current # None /\ Len(current) = 2 /\ current[1] = "room" THEN current[2] ELSE None

\* len(rooms) if rooms else 0
rooms_count_of(rooms) == IF Truthy(rooms) THEN Len(rooms) ELSE 0

\* create_room marking the room current before labelling its zone
create_room_current_first(g, answers, zone_id) ==
    LET room_id == g.pending_room_id
        g1 == api_log(g, "Creating new room")
        g2 == api_call(g1, "createRoom", <<room_id, g.pending_room_name, 0, 0, 0>>,
                       answers.created)
    IN  IF answers.created = PyTrue
        THEN LET g3 == api_call(g2, "setCurrentRoom", <<room_id>>, None)
                 g4 == api_call(g3, "setRoomZone", <<room_id, zone_label(zone_id)>>, None)
                 g5 == api_log(api_call(g4, "addUnexploredExits",
                                        <<room_id, g.pending_exits>>, None),
                               "Added exits")
             IN  api_echo(g5, "[Mapper]", "New")
        ELSE api_log(g2, "create_room returned false")

\* create_room telling the user of a failed createRoom and trying once more
create_room_retrying(g, answers, zone_id) ==
    LET room_id == g.pending_room_id
        g1 == api_log(g, "Creating new room")
        g2 == api_call(g1, "createRoom", <<room_id, g.pending_room_name, 0, 0, 0>>,
                       answers.created)
    IN  IF answers.created = PyTrue
        THEN LET g3 == api_call(g2, "setRoomZone", <<room_id, zone_label(zone_id)>>, None)
                 g4 == api_call(g3, "setCurrentRoom", <<room_id>>, None)
                 g5 == api_log(api_call(g4, "addUnexploredExits",
                                        <<room_id, g.pending_exits>>, None),
                               "Added exits")
             IN  api_echo(g5, "[Mapper]", "New")
        ELSE api_call(api_echo(g2, "[Mapper]", "create_room returned false"),
                      "createRoom", <<room_id, g.pending_room_name, 0, 0, 0>>, answers.created)

\* the `if api.createRoom(...)` branch: a room the store does not know
create_room(g, answers, zone_id) ==
    LET room_id == g.pending_room_id
        g1 == api_log(g, "Creating new room")
        g2 == api_call(g1, "createRoom", <<room_id, g.pending_room_name, 0, 0, 0>>,
                       answers.created)
    IN  IF answers.created = PyTrue
        THEN LET g3 == api_call(g2, "setRoomZone", <<room_id, zone_label(zone_id)>>, None)
                 g4 == api_call(g3, "setCurrentRoom", <<room_id>>, None)
                 g5 == IF Truthy(g.pending_exits) /\ Len(g.pending_exits) > 0
                       THEN api_log(api_call(g4, "addUnexploredExits",
                                             <<room_id, g.pending_exits>>, None),
                                    "Added exits")
                       ELSE g4
             IN  api_echo(g5, "[Mapper]", "New")
        ELSE api_log(g2, "create_room returned false")

\* room_exists forwarding the exits without marking the room current
room_exists_no_current(g) ==
    api_log(api_call(api_log(g, "Room exists, setting current"), "addUnexploredExits",
                     <<g.pending_room_id, g.pending_exits>>, None),
            "Updated exits")

\* the `else` of `if rooms_count == 0`: a room the store already knows
room_exists(g) ==
    LET room_id == g.pending_room_id
        g1 == api_log(g, "Room exists, setting current")
        g2 == api_call(g1, "setCurrentRoom", <<room_id>>, None)
    IN  IF Truthy(g.pending_exits) /\ Len(g.pending_exits) > 0
        THEN api_log(api_call(g2, "addUnexploredExits", <<room_id, g.pending_exits>>, None),
                     "Updated exits")
        ELSE g2

\* the `else` of `if direction:` (initial room / resync)
resync_commit(g, answers, zone_id) ==
    LET room_id == g.pending_room_id
        g1 == api_log(g, "Initial room case")
        g2 == api_call(g1, "getCurrentRoom", <<>>, answers.current)
        current_id == current_id_of(answers.current)
        g3 == api_log(g2, "current_id")
    IN  IF current_id # room_id
        THEN LET g4 == api_call(g3, "searchRooms", <<room_id>>, answers.rooms)
                 rooms_count == rooms_count_of(answers.rooms)
                 g5 == api_log(g4, "search_rooms found")
             IN  IF rooms_count = 0
                 THEN create_room(g5, answers, zone_id)
                 ELSE room_exists(g5)
        ELSE api_log(g3, "current_id == room_id, skipping")

\* the reset block without its last line
reset_keeps_direction(g) ==
    [g EXCEPT !.pending_room_id = None, !.pending_room_name = None,
              !.pending_exits = None]

\* the reset block without its third line
reset_keeps_exits(g) ==
    [g EXCEPT !.pending_room_id = None, !.pending_room_name = None,
              !.last_direction = NoneDir]

\* the final reset block
reset(g) ==
    [g EXCEPT !.pending_room_id = None, !.pending_room_name = None,
              !.pending_exits = None, !.last_direction = NoneDir]

\* the guards dropping the pending direction when the observation is incomplete
early_return_expiring(g) ==
    [debug(g, "try_create_room: incomplete") EXCEPT !.last_direction = NoneDir]

\* the three `if not ...: return` guards, taken in order
early_return(g) ==
    IF ~Truthy(g.pending_room_id) THEN debug(g, "try_create_room: no room_id")
    ELSE IF ~Truthy(g.pending_room_name) THEN debug(g, "try_create_room: no room_name")
    ELSE debug(g, "try_create_room: no exits")

\* try_create_room returning after the commit without its reset block
try_create_room_unreset(g, answers) ==
    LET g1 == api_log(g, "try_create_room")
    IN  IF ~is_complete(g1) THEN early_return(g1)
        ELSE LET zone_id == zone_of(g1.pending_room_id)
             IN  IF g1.last_direction # NoneDir
                 THEN movement_commit(g1, answers, zone_id)
                 ELSE resync_commit(g1, answers, zone_id)

try_create_room(g, answers) ==
    LET g1 == api_log(g, "try_create_room")
    IN  IF ~is_complete(g1) THEN early_return(g1)
        ELSE LET zone_id == zone_of(g1.pending_room_id)
             IN  reset(IF g1.last_direction # NoneDir
                       THEN movement_commit(g1, answers, zone_id)
                       ELSE resync_commit(g1, answers, zone_id))

-----------------------------------------------------------------------------
(* The three trigger callbacks, as functions of the globals they find *)

\* the decoration check made on the untrimmed title
room_accepted_untrimmed(name, room_id) ==
    /\ Truthy(name)
    /\ Truthy(room_id)
    /\ Truthy(strip(name))
    /\ name[1] \notin {":", "|", "-", " "}

\* the checks of on_room_trigger that let a (title, id) pair through
room_accepted(name, room_id) ==
    /\ Truthy(name)
    /\ Truthy(room_id)
    /\ LET trimmed == strip(name)
       IN  /\ Truthy(trimmed)
           /\ trimmed[1] \notin {":", "|", "-", " "}

\* on_room_trigger storing the captured title as it came
room_callback_raw_title(g, name, room_id, answers) ==
    LET g1 == api_log(g, "room callback")
    IN  IF room_accepted(name, room_id)
        THEN try_create_room([g1 EXCEPT !.pending_room_name = name,
                                        !.pending_room_id = room_id],
                             answers)
        ELSE g1

room_callback(g, name, room_id, answers) ==
    LET g1 == api_log(g, "room callback")
    IN  IF room_accepted(name, room_id)
        THEN try_create_room([g1 EXCEPT !.pending_room_name = strip(name),
                                        !.pending_room_id = room_id],
                             answers)
        ELSE g1

RECURSIVE decode_loop(_, _, _)
\* the `for char in exits_str` loop, from the characters still to be read
decode_loop(rest, exits, in_brackets) ==
    IF rest = <<>> THEN exits
    ELSE LET char == Head(rest)
         IN  IF char = "(" THEN decode_loop(Tail(rest), exits, TRUE)
             ELSE IF char = ")" THEN decode_loop(Tail(rest), exits, FALSE)
             ELSE LET direction == exit_chars_get(char)
                  IN  IF direction # NoneDir /\ direction \notin Range(exits)
                      THEN decode_loop(Tail(rest), Append(exits, direction), in_brackets)
                      ELSE decode_loop(Tail(rest), exits, in_brackets)

RECURSIVE decode_loop_skipping(_, _, _)
\* the loop with the in_brackets flag put to use: bracketed glyphs are dropped
decode_loop_skipping(rest, exits, in_brackets) ==
    IF rest = <<>> THEN exits
    ELSE LET char == Head(rest)
         IN  IF char = "(" THEN decode_loop_skipping(Tail(rest), exits, TRUE)
             ELSE IF char = ")" THEN decode_loop_skipping(Tail(rest), exits, FALSE)
             ELSE LET direction == exit_chars_get(char)
                  IN  IF ~in_brackets /\ direction # NoneDir /\ direction \notin Range(exits)
                      THEN decode_loop_skipping(Tail(rest), Append(exits, direction), in_brackets)
                      ELSE decode_loop_skipping(Tail(rest), exits, in_brackets)

decode_exits_skipping(exits_str) == decode_loop_skipping(exits_str, <<>>, FALSE)

\* the exit glyph decoder: exits = [], in_brackets = False, then the loop
decode_exits(exits_str) == decode_loop(exits_str, <<>>, FALSE)

\* on_exits_trigger calling try_create_room before it stores the exits
exits_callback_commits_first(g, exits_str, answers) ==
    LET g1 == api_log(g, "exits callback")
    IN  IF ~Truthy(exits_str) THEN g1
        ELSE LET exits == decode_exits(exits_str)
                 g2 == try_create_room(debug(g1, "exits"), answers)
             IN  [g2 EXCEPT !.pending_exits = exits]

exits_callback(g, exits_str, answers) ==
    LET g1 == api_log(g, "exits callback")
    IN  IF ~Truthy(exits_str) THEN g1
        ELSE LET exits == decode_exits(exits_str)
                 g2 == debug(g1, "exits")
             IN  try_create_room([g2 EXCEPT !.pending_exits = exits], answers)

\* record_direction that leaves the buffered exits in place
record_direction_keeps_exits(g, direction) ==
    [g EXCEPT !.last_direction = direction, !.pending_room_name = None,
              !.pending_room_id = None]

\* record_direction that leaves the buffered title and id in place
record_direction_keeps_room(g, direction) ==
    [g EXCEPT !.last_direction = direction, !.pending_exits = None]

\* the assignments made when the movement word is in the phrase table
record_direction(g, direction) ==
    [g EXCEPT !.last_direction = direction, !.pending_room_name = None,
              !.pending_room_id = None, !.pending_exits = None]

movement_callback(g, dir_text) ==
    LET g1 == api_log(g, "movement callback")
    IN  IF Truthy(dir_text)
        THEN LET direction == directions_get(lower(dir_text))
             IN  IF direction # NoneDir THEN record_direction(g1, direction) ELSE g1
        ELSE g1

-----------------------------------------------------------------------------
(* What the host delivers *)

Str_5001 == <<"5", "0", "0", "1">>
Str_abc == <<"a", "b", "c">>

\* ids a room line may carry (group 2), None and "" included
RoomIds == {None, <<>>, Str_5001, Str_abc}

\* titles a room line may carry (group 1): missing, empty, blank, plain,
\* padded, and map decoration lines
RoomTitles ==
    {None, <<>>, <<" ">>, <<"P">>, <<"P", " ", "d", " ">>,
     <<":", "P">>, <<"|", "P">>, <<"-", "P">>, <<" ", "-", "P">>, <<"P", ":">>}

\* the exit strings of the script's header comment and of the documentation
Exits_SYuVvu == <<"RU_S", "RU_YU", "RU_V", "v", "^", ">">>
Exits_bracketed == <<"(", "RU_S", ")", "RU_V", "(", "RU_YU", ")", ">">>

ExitLines ==
    {None, <<>>, <<"(", ")">>, <<"ru_s", "RU_S", "RU_YU">>, Exits_SYuVvu, Exits_bracketed}

W_Sever == <<"RU_S", "ru_e", "ru_v", "ru_e", "ru_r">>
W_YUG == <<"RU_YU", "RU_G">>
W_prygnul == <<"ru_p", "ru_r", "ru_i", "ru_g">>

MoveWords ==
    {None, <<>>, W_sever, W_Sever, W_YUG, W_vniz, W_prygnul}

\* what the store may answer: getCurrentRoom (no room, a room with an id, a
\* handle whose get("id") raises), searchRooms, createRoom, handleMovement
Answers ==
    [current : {None, <<"badroom">>} \cup {<<"room", i>> : i \in {Str_5001, Str_abc}},
     rooms : {None, <<>>, <<"r1">>},
     created : {PyTrue, PyFalse},
     room_info : {None, <<"room_info">>}]

\* the answers of a callback that asks the store nothing
Unasked == [current |-> None, rooms |-> None, created |-> PyFalse, room_info |-> None]

\* the store is consulted only by a commit: its answers are drawn only then
AnswersFor(g) == IF g.calls # <<>> THEN Answers ELSE {Unasked}

\* the callback returns: its globals, calls and sink entries become the state
Return(g, ev, answers) ==
    /\ pending_room_id' = g.pending_room_id
    /\ pending_room_name' = g.pending_room_name
    /\ pending_exits' = g.pending_exits
    /\ last_direction' = g.last_direction
    /\ calls' = g.calls
    /\ out' = g.out
    /\ event' = ev
    /\ api' = answers
    /\ UNCHANGED automapper_debug

Event(cb, g1, g2) == [cb |-> cb, g1 |-> g1, g2 |-> g2]

on_room_trigger(name, room_id) ==
    \E answers \in AnswersFor(room_callback(Current, name, room_id, Unasked)) :
        \E g \in {room_callback(Current, name, room_id, answers)} :
            Return(g, Event("room", name, room_id), answers)

on_exits_trigger(exits_str) ==
    \E answers \in AnswersFor(exits_callback(Current, exits_str, Unasked)) :
        \E g \in {exits_callback(Current, exits_str, answers)} :
            Return(g, Event("exits", exits_str, None), answers)

on_movement_trigger(dir_text) ==
    \E g \in {movement_callback(Current, dir_text)} :
        Return(g, Event("movement", dir_text, None), Unasked)

\* history of a session in which no line has been delivered yet: the direction
\* of the latest recognized movement, the latest fragments delivered after it,
\* whether a commit followed it, and which fragments came after the latest
\* commit
NoHistory ==
    [moved |-> NoneDir, id |-> None, name |-> None, exits |-> None,
     committed |-> FALSE, title_since_commit |-> FALSE, exits_since_commit |-> FALSE]

\* module load: the four globals are None; the debug variable is whatever the
\* user set it to
Init ==
    /\ pending_room_id = None
    /\ pending_room_name = None
    /\ pending_exits = None
    /\ last_direction = NoneDir
    /\ automapper_debug \in {"false", "true"}
    /\ event = Event("load", None, None)
    /\ api = Unasked
    /\ calls = <<>>
    /\ out = <<>>
    /\ hist = NoHistory

RoomLine ==
    /\ \E name \in RoomTitles, room_id \in RoomIds : on_room_trigger(name, room_id)
    /\ UNCHANGED hist

ExitsLine ==
    /\ \E exits_str \in ExitLines : on_exits_trigger(exits_str)
    /\ UNCHANGED hist

MovementLine ==
    /\ \E dir_text \in MoveWords : on_movement_trigger(dir_text)
    /\ UNCHANGED hist

Next == RoomLine \/ ExitsLine \/ MovementLine

Spec == Init /\ [][Next]_vars

-----------------------------------------------------------------------------
(* The exit glyph decoder on every short string: one exits line, matched   *)
(* and waiting in `event`, is delivered to on_exits_trigger.               *)

MaxExitLen == 3

\* the ten glyphs of the table, the parentheses, and two characters the
\* table does not know
ExitChars == {p[1] : p \in exit_chars} \cup {"(", ")", ">", "x"}

ExitStrings == SeqsUpTo(ExitChars, MaxExitLen) \cup {None, Exits_SYuVvu, Exits_bracketed}

InitExits ==
    /\ pending_room_id = None
    /\ pending_room_name = None
    /\ pending_exits = None
    /\ last_direction = NoneDir
    /\ automapper_debug \in {"false", "true"}
    /\ event \in {Event("exits_line", s, None) : s \in ExitStrings}
    /\ api = Unasked
    /\ calls = <<>>
    /\ out = <<>>
    /\ hist = NoHistory

DeliverExits ==
    /\ event.cb = "exits_line"
    /\ on_exits_trigger(event.g1)
    /\ UNCHANGED hist

SpecExits == InitExits /\ [][DeliverExits]_vars

-----------------------------------------------------------------------------
(* Room recognition and zone derivation on every short title and id: one   *)
(* room line, matched and waiting in `event`, is delivered to              *)
(* on_room_trigger in an accumulator state the script can be in.           *)

MaxTitleLen == 3
MaxIdLen == 3

TitleChars == {" ", ":", "|", "-", "P"}

IdChars == {"0", "1", "5", "-", "a"}

Str_7 == <<"7">>
Str_9 == <<"9">>

\* every short title with a few ids, and a plain title with every short id
RoomLines ==
    ((SeqsUpTo(TitleChars, MaxTitleLen) \cup {None}) \X {None, <<>>, Str_7})
        \cup ({<<"P">>} \X SeqsUpTo(IdChars, MaxIdLen))

\* accumulator states between callbacks: empty; exits only; an older room
\* line buffered, with no exits or with an exits line that decoded to nothing
BufferedBefore ==
    {Globals(None, None, None, NoneDir),
     Globals(None, None, <<"north", "south">>, NoneDir),
     Globals(Str_9, <<"d">>, None, NoneDir),
     Globals(Str_9, <<"d">>, <<>>, NoneDir)}

InitRoom ==
    /\ \E b \in BufferedBefore :
          /\ pending_room_id = b.pending_room_id
          /\ pending_room_name = b.pending_room_name
          /\ pending_exits = b.pending_exits
    /\ last_direction \in {NoneDir, "north"}
    /\ automapper_debug \in {"false", "true"}
    /\ event \in {Event("room_line", l[1], l[2]) : l \in RoomLines}
    /\ api = Unasked
    /\ calls = <<>>
    /\ out = <<>>
    /\ hist = NoHistory

DeliverRoom ==
    /\ event.cb = "room_line"
    /\ on_room_trigger(event.g1, event.g2)
    /\ UNCHANGED hist

SpecRoom == InitRoom /\ [][DeliverRoom]_vars

-----------------------------------------------------------------------------
(* The movement phrase decoder on every capitalisation of the six words    *)
(* and on words the table does not hold: one movement line, matched and    *)
(* waiting in `event`, is delivered to on_movement_trigger.                *)

\* every way of writing word with each letter in upper or lower case
RECURSIVE Capitalisations(_)
Capitalisations(word) ==
    IF word = <<>> THEN {<<>>}
    ELSE {<<c>> \o rest : c \in {Head(word)} \cup {p[1] : p \in {q \in CasePairs : q[2] = Head(word)}},
                          rest \in Capitalisations(Tail(word))}

\* the table's words cut short: none of them is in the table
CutShort(word) == {SubSeq(word, 1, n) : n \in 1..(Len(word) - 1)}

MovementCaptures ==
    UNION {Capitalisations(p[1]) : p \in directions}
        \cup UNION {CutShort(p[1]) : p \in directions}
        \cup {None, <<>>, W_prygnul}

InitMove ==
    /\ \E b \in BufferedBefore :
          /\ pending_room_id = b.pending_room_id
          /\ pending_room_name = b.pending_room_name
          /\ pending_exits = b.pending_exits
    /\ last_direction \in {NoneDir, "north", "up"}
    /\ automapper_debug \in {"false", "true"}
    /\ event \in {Event("movement_line", w, None) : w \in MovementCaptures}
    /\ api = Unasked
    /\ calls = <<>>
    /\ out = <<>>
    /\ hist = NoHistory

DeliverMovement ==
    /\ event.cb = "movement_line"
    /\ on_movement_trigger(event.g1)
    /\ UNCHANGED hist

SpecMove == InitMove /\ [][DeliverMovement]_vars

-----------------------------------------------------------------------------
(* Vocabulary of the properties *)

\* the observation is fully empty
AccEmpty ==
    /\ pending_room_id = None
    /\ pending_room_name = None
    /\ pending_exits = None
    /\ last_direction = NoneDir

Ops(cs) == [i \in DOMAIN cs |-> cs[i].op]

\* the calls that change the store, without what they answered
Mutations(cs) ==
    LET keep(c) == c.op \notin {"getCurrentRoom", "searchRooms"}
        bare(c) == <<c.op, c.args>>
        F[i \in 0..Len(cs)] ==
            IF i = 0 THEN <<>>
            ELSE IF keep(cs[i]) THEN Append(F[i - 1], bare(cs[i])) ELSE F[i - 1]
    IN  F[Len(cs)]

Present(x) == x # None /\ x # <<>>

\* a room line the recognizer lets through: both groups present, the title
\* not blank, and its first non-blank character no decoration character
TitlePasses(name, room_id) ==
    /\ Present(name)
    /\ Present(room_id)
    /\ \E i \in DOMAIN name :
          /\ ~IsSpace(name[i])
          /\ \A j \in 1..(i - 1) : IsSpace(name[j])
          /\ name[i] \notin {":", "|", "-"}

\* In a step: the line just delivered reached try_create_room, and the three
\* fragments as they stood after that line's mutation.
TryRan ==
    \/ event'.cb = "room" /\ TitlePasses(event'.g1, event'.g2)
    \/ event'.cb = "exits" /\ Present(event'.g1)

SeenId == IF event'.cb = "room" THEN event'.g2 ELSE pending_room_id

\* a title without its leading and trailing blanks
Trimmed(name) ==
    LET solid == {i \in DOMAIN name : ~IsSpace(name[i])}
    IN  IF solid = {} THEN <<>>
        ELSE SubSeq(name, CHOOSE i \in solid : \A j \in solid : i <= j,
                          CHOOSE i \in solid : \A j \in solid : i >= j)

SeenName == IF event'.cb = "room" THEN Trimmed(event'.g1) ELSE pending_room_name

SeenExits == IF event'.cb = "exits" THEN decode_exits(event'.g1) ELSE pending_exits

\* In a step: the line just delivered completed the observation.
Completes == TryRan /\ Present(SeenId) /\ Present(SeenName) /\ Present(SeenExits)

ResyncOps == {"getCurrentRoom", "searchRooms", "createRoom", "setCurrentRoom",
              "addUnexploredExits"}

Zone_50 == <<"z", "o", "n", "e", "_", "5", "0">>

Zone_0 == <<"z", "o", "n", "e", "_", "0">>

-----------------------------------------------------------------------------
(* C1 *)

\* C1: a callback whose line completes the observation (room_id, room_name
\* and a non-empty exits all present when try_create_room runs) returns with
\* the accumulator fully empty, on every branch of the commit.
C1_ResetAfterCommit == [][Completes => AccEmpty']_vars

\* a commit whose createRoom failed has returned, and the accumulator is empty
C1_Witness ==
    /\ Ops(calls) = <<"getCurrentRoom", "searchRooms", "createRoom">>
    /\ calls[3].ret = PyFalse
    /\ AccEmpty

-----------------------------------------------------------------------------
(* C2 *)

\* C2: right after on_movement_trigger recognized a movement word, the
\* pending direction is the decoded one, room_id, room_name and exits are
\* unset, and the callback issued no map store call.
C2_MovementClears ==
    (event.cb = "movement" /\ Present(event.g1)
        /\ \E p \in directions : p[1] = lower(event.g1))
    => /\ \E p \in directions : p[1] = lower(event.g1) /\ last_direction = p[2]
       /\ pending_room_id = None
       /\ pending_room_name = None
       /\ pending_exits = None
       /\ calls = <<>>

\* the capitalised word for north was recognized
C2_Witness ==
    /\ event = Event("movement", W_Sever, None)
    /\ last_direction = "north"
    /\ pending_exits = None

-----------------------------------------------------------------------------
(* C3 *)

\* C3: when a direction is pending and a room or exits line completes the
\* observation, the commit calls handleMovement(direction, room_name, exits,
\* room_id) with the recorded direction and the observed fragments and makes
\* none of the resync calls, whatever the store's current room is.
C3_MovementCommit ==
    [][(Completes /\ last_direction # NoneDir)
        => /\ calls' # <<>>
           /\ calls'[1].op = "handleMovement"
           /\ calls'[1].args = <<last_direction, SeenName, SeenExits, SeenId>>
           /\ \A i \in DOMAIN calls' : calls'[i].op \notin ResyncOps
           /\ \A i \in 2..Len(calls') : calls'[i].op # "handleMovement"]_vars

\* handleMovement was called on completion by a room line, at a moment when
\* the store's current room is the very room observed
C3_Witness ==
    /\ event.cb = "room"
    /\ calls # <<>>
    /\ calls[1].op = "handleMovement"
    /\ api.current = <<"room", event.g2>>

-----------------------------------------------------------------------------
(* C4 *)

\* C4: no pending direction, the store's current room id differs from the
\* observed id, searchRooms finds nothing and createRoom succeeds: the store
\* mutations are exactly createRoom(id, name, 0, 0, 0), setRoomZone(id,
\* "zone_" + zone), setCurrentRoom(id), addUnexploredExits(id, exits), in this
\* order; id 5001 gives zone_50.
C4_CreateSequence ==
    [][(/\ Completes
        /\ last_direction = NoneDir
        /\ api'.current # <<"room", SeenId>>
        /\ api'.rooms \in {None, <<>>}
        /\ api'.created = PyTrue)
        => LET mu == Mutations(calls')
           IN  /\ Len(mu) = 4
               /\ mu[1] = <<"createRoom", <<SeenId, SeenName, 0, 0, 0>>>>
               /\ mu[2][1] = "setRoomZone"
               /\ Len(mu[2][2]) = 2
               /\ mu[2][2][1] = SeenId
               /\ SubSeq(mu[2][2][2], 1, 5) = <<"z", "o", "n", "e", "_">>
               /\ (SeenId = Str_5001 => mu[2][2][2] = Zone_50)
               /\ mu[3] = <<"setCurrentRoom", <<SeenId>>>>
               /\ mu[4] = <<"addUnexploredExits", <<SeenId, SeenExits>>>>
               /\ Ops(calls') = <<"getCurrentRoom", "searchRooms", "createRoom",
                                  "setRoomZone", "setCurrentRoom", "addUnexploredExits">>]_vars

\* room 5001 was created while another room was the store's current room
C4_Witness ==
    /\ Len(calls) = 6
    /\ calls[1].ret = <<"room", Str_abc>>
    /\ calls[3] = Call("createRoom", <<Str_5001, <<"P", " ", "d">>, 0, 0, 0>>, PyTrue)
    /\ calls[4] = Call("setRoomZone", <<Str_5001, Zone_50>>, None)
    /\ calls[6].op = "addUnexploredExits"
    /\ AccEmpty

-----------------------------------------------------------------------------
(* C5 *)

\* C5: no pending direction and the store's current room id equals the
\* observed id: the commit asks getCurrentRoom and nothing else (no mutation,
\* no searchRooms), and the accumulator is reset.
C5_ResyncNoOp ==
    [][(Completes /\ last_direction = NoneDir /\ api'.current = <<"room", SeenId>>)
        => /\ Ops(calls') = <<"getCurrentRoom">>
           /\ Mutations(calls') = <<>>
           /\ AccEmpty']_vars

\* the no-op branch was taken
C5_Witness ==
    /\ Ops(calls) = <<"getCurrentRoom">>
    /\ calls[1].ret = <<"room", Str_5001>>
    /\ event.cb = "exits"
    /\ AccEmpty

-----------------------------------------------------------------------------
(* C6 *)

\* C6 as stated: the exit string RU_S RU_YU RU_V v ^ > decodes to
\* [north, south, east, up, down].
C6_AsStated ==
    event = Event("exits", Exits_SYuVvu, None)
        => pending_exits = <<"north", "south", "east", "up", "down">>

\* C6, amended: that exit string decodes to [north, south, east, down, up]:
\* first-seen order, "v" (down) standing before "^" (up), ">" ignored.
C6_DecodeExample ==
    event = Event("exits", Exits_SYuVvu, None)
        => pending_exits = <<"north", "south", "east", "down", "up">>

\* that exit string was delivered and decoded
C6_Witness ==
    /\ event = Event("exits", Exits_SYuVvu, None)
    /\ Len(pending_exits) = 5

-----------------------------------------------------------------------------
(* C7 *)

RemoveParens(s) == SelectSeq(s, LAMBDA c : c \notin {"(", ")"})

\* the first position of s holding a glyph of direction d
FirstGlyph(s, d) ==
    CHOOSE i \in DOMAIN s :
        /\ <<s[i], d>> \in exit_chars
        /\ \A j \in 1..(i - 1) : <<s[j], d>> \notin exit_chars

\* C7: for every non-empty exit string the decoder's result holds exactly
\* the directions of the table glyphs of the string, each once, in order of
\* first occurrence; parentheses and unknown characters add nothing: the
\* result is that of the string without its parentheses, and that of the
\* lower-cased string.  "(RU_S)RU_V(RU_YU)>" gives [north, east, south].
C7_DecodeOrderedSet ==
    (event.cb = "exits" /\ Present(event.g1))
    => LET s == event.g1
           r == pending_exits
       IN  /\ r # None
           /\ \A i, j \in DOMAIN r : i # j => r[i] # r[j]
           /\ Range(r) = {p[2] : p \in {q \in exit_chars : q[1] \in Range(s)}}
           /\ \A i, j \in DOMAIN r : i < j => FirstGlyph(s, r[i]) < FirstGlyph(s, r[j])
           /\ r = decode_exits(RemoveParens(s))
           /\ r = decode_exits(lower(s))
           /\ (s = Exits_bracketed => r = <<"north", "east", "south">>)

\* the bracketed example was decoded
C7_Witness ==
    /\ event = Event("exits", Exits_bracketed, None)
    /\ pending_exits = <<"north", "east", "south">>

-----------------------------------------------------------------------------
(* C8 *)

\* the number a zone label names after its "zone_" prefix
ZoneNumber(label) == int(SubSeq(label, 6, Len(label)))

\* C8: every zone label passed to setRoomZone is "zone_" followed by
\* floor(n / 100) when the observed room_id parses as the integer n, and is
\* "zone_0" when it does not parse; a line completing the observation with a
\* non-parsing id still commits (store calls are made) and resets.
C8_ZoneLabel ==
    [][/\ \A i \in DOMAIN calls' :
             calls'[i].op = "setRoomZone"
             => LET id == calls'[i].args[1]
                    label == calls'[i].args[2]
                    tail == SubSeq(label, 6, Len(label))
                IN  /\ id = SeenId
                    /\ SubSeq(label, 1, 5) = <<"z", "o", "n", "e", "_">>
                    /\ IF int_parses(id)
                       THEN /\ int_parses(tail)
                            /\ 100 * ZoneNumber(label) <= int(id)
                            /\ int(id) < 100 * ZoneNumber(label) + 100
                       ELSE label = Zone_0
       /\ (Completes /\ ~int_parses(SeenId)) => (calls' # <<>> /\ AccEmpty')]_vars

\* a room whose id is no number was given zone_0
C8_Witness ==
    /\ \E i \in DOMAIN calls :
          calls[i] = Call("setRoomZone", <<<<"a", "5">>, Zone_0>>, None)
    /\ AccEmpty

\* a room with a negative id was given the floor of id / 100
C8_WitnessNegative ==
    \E i \in DOMAIN calls :
        calls[i] = Call("setRoomZone", <<<<"-", "1", "5">>, <<"z", "o", "n", "e", "_", "-", "1">>>>, None)

-----------------------------------------------------------------------------
(* C9 *)

\* C9: a line that reaches try_create_room makes store calls and resets the
\* accumulator exactly when room_id, room_name and a non-empty exits are all
\* present after its mutation; otherwise no store call is made and the
\* fragments stay as the mutation left them.  A line that does not reach
\* try_create_room makes no store call.
C9_CommitIffComplete ==
    [][IF TryRan
       THEN IF Completes
            THEN calls' # <<>> /\ AccEmpty'
            ELSE /\ calls' = <<>>
                 /\ pending_room_id' = SeenId
                 /\ pending_room_name' = SeenName
                 /\ pending_exits' = SeenExits
                 /\ last_direction' = last_direction
                 /\ ~AccEmpty'
       ELSE calls' = <<>>]_vars

\* a title+id line is buffered together with an exits line that decoded to
\* an empty list: nothing was committed
C9_Witness ==
    /\ event.cb = "room"
    /\ pending_exits = <<>>
    /\ pending_room_id = Str_5001
    /\ pending_room_name = <<"P">>
    /\ calls = <<>>

-----------------------------------------------------------------------------
(* C10 *)

\* the four fields are as they were and no store call was made
RoomLineIgnored ==
    /\ pending_room_id' = pending_room_id
    /\ pending_room_name' = pending_room_name
    /\ pending_exits' = pending_exits
    /\ last_direction' = last_direction
    /\ calls' = <<>>

\* name and id were recorded: they are buffered, or the commit they completed
\* was made with them
RoomLineRecorded(name, room_id) ==
    \/ /\ pending_room_name' = name
       /\ pending_room_id' = room_id
       /\ pending_exits' = pending_exits
       /\ last_direction' = last_direction
    \/ /\ AccEmpty'
       /\ calls' # <<>>
       /\ \A i \in DOMAIN calls' :
             LET c == calls'[i]
             IN  /\ c.op = "handleMovement" => c.args[2] = name /\ c.args[4] = room_id
                 /\ c.op = "createRoom" => c.args[1] = room_id /\ c.args[2] = name
                 /\ c.op \in {"searchRooms", "setRoomZone", "setCurrentRoom",
                              "addUnexploredExits"} => c.args[1] = room_id

\* C10 as stated: the pair is rejected when the title or the id is missing or
\* empty or the trimmed title starts with ':', '|', '-' or ' '; otherwise the
\* trimmed title and the id are recorded.
C10_AsStated ==
    [][event'.cb = "room"
       => LET name == event'.g1
              room_id == event'.g2
          IN  IF \/ ~Present(name)
                 \/ ~Present(room_id)
                 \/ /\ Trimmed(name) # <<>>
                    /\ Trimmed(name)[1] \in {":", "|", "-", " "}
              THEN RoomLineIgnored
              ELSE RoomLineRecorded(Trimmed(name), room_id)]_vars

\* C10, amended: the pair is also rejected when the title is blank (empty
\* once trimmed).  Rejected: title or id missing or empty, title blank, or
\* first character of the trimmed title one of ':', '|', '-', ' '; a rejected
\* pair leaves the four fields unchanged and makes no store call; any other
\* pair records the trimmed title and the id.
C10_RoomRecognition ==
    [][event'.cb = "room"
       => LET name == event'.g1
              room_id == event'.g2
          IN  IF \/ ~Present(name)
                 \/ ~Present(room_id)
                 \/ Trimmed(name) = <<>>
                 \/ Trimmed(name)[1] \in {":", "|", "-", " "}
              THEN RoomLineIgnored
              ELSE RoomLineRecorded(Trimmed(name), room_id)]_vars

\* a padded title was recorded trimmed, in place of the older buffered one
C10_Witness ==
    /\ event = Event("room", <<" ", "P", " ">>, Str_7)
    /\ pending_room_name = <<"P">>
    /\ pending_room_id = Str_7
    /\ pending_exits = <<>>

\* a blank title was delivered and the older buffered title is still there
C10_WitnessBlank ==
    /\ event = Event("room", <<" ", " ">>, Str_7)
    /\ pending_room_name = <<"d">>
    /\ pending_room_id = Str_9

-----------------------------------------------------------------------------
(* C11 *)

\* what the last callback sent to its sinks from try_create_room's first
\* line on
CommitOut(o) ==
    LET start == {i \in DOMAIN o : o[i] = Entry("log", "[PY]", "try_create_room")}
    IN  IF start = {} THEN <<>>
        ELSE SubSeq(o, CHOOSE i \in start : TRUE, Len(o))

Echoes(o) == SelectSeq(o, LAMBDA e : e.chan = "echo")

Logs(o) == SelectSeq(o, LAMBDA e : e.chan = "log")

MovementLogs ==
    <<Entry("log", "[PY]", "try_create_room"), Entry("log", "[PY]", "handle_movement")>>

\* C11 as stated: on the movement path, when handleMovement returns no
\* result the commit writes a log entry only: no setRoomZone, nothing on the
\* echo channel, no second handleMovement, accumulator reset; with a result,
\* setRoomZone(room_id, zone label) is called and a confirmation is echoed.
C11_AsStated ==
    [][(Completes /\ last_direction # NoneDir)
       => IF ~Present(api'.room_info)
          THEN /\ Ops(calls') = <<"handleMovement">>
               /\ Logs(CommitOut(out')) # <<>>
               /\ Echoes(CommitOut(out')) = <<>>
               /\ AccEmpty'
          ELSE /\ Ops(calls') = <<"handleMovement", "setRoomZone">>
               /\ calls'[2].args[1] = SeenId
               /\ Echoes(CommitOut(out')) = <<Entry("echo", "[Mapper]", "room")>>]_vars

\* C11, amended: when handleMovement returns no result the commit makes no
\* setRoomZone call and no second handleMovement call, echoes no
\* confirmation and resets the accumulator; the failure itself is reported
\* through debug(): one "[Mapper DEBUG]" message on the echo channel when the
\* automapper_debug variable is "true" or "1", and nothing at all otherwise
\* (the only log entries are the two written before the call).  With a
\* result, setRoomZone(room_id, zone label) is called and the confirmation
\* is echoed.
C11_MovementResult ==
    [][(Completes /\ last_direction # NoneDir)
       => IF ~Present(api'.room_info)
          THEN /\ Ops(calls') = <<"handleMovement">>
               /\ Logs(CommitOut(out')) = MovementLogs
               /\ Echoes(CommitOut(out')) =
                     IF automapper_debug \in {"true", "1"}
                     THEN <<Entry("echo", "[Mapper DEBUG]", "handleMovement returned None")>>
                     ELSE <<>>
               /\ AccEmpty'
          ELSE /\ Ops(calls') = <<"handleMovement", "setRoomZone">>
               /\ calls'[2].args[1] = SeenId
               /\ SubSeq(calls'[2].args[2], 1, 5) = <<"z", "o", "n", "e", "_">>
               /\ (SeenId = Str_5001 => calls'[2].args[2] = Zone_50)
               /\ Logs(CommitOut(out')) = MovementLogs
               /\ Echoes(CommitOut(out')) = <<Entry("echo", "[Mapper]", "room")>>
               /\ AccEmpty']_vars

\* handleMovement returned nothing with the debug variable on: the failure
\* went to the echo channel
C11_Witness ==
    /\ Ops(calls) = <<"handleMovement">>
    /\ calls[1].ret = None
    /\ automapper_debug = "true"
    /\ out[Len(out)] = Entry("echo", "[Mapper DEBUG]", "handleMovement returned None")
    /\ AccEmpty

\* handleMovement returned nothing with the debug variable off: nothing echoed
C11_WitnessQuiet ==
    /\ Ops(calls) = <<"handleMovement">>
    /\ calls[1].ret = None
    /\ automapper_debug = "false"
    /\ Echoes(out) = <<>>

-----------------------------------------------------------------------------
(* C12 *)

\* C12: no pending direction, the observed room neither current nor found,
\* and createRoom reports failure: no setRoomZone, setCurrentRoom or
\* addUnexploredExits call follows, createRoom is called once, the commit
\* echoes nothing and ends with the log entry "create_room returned false",
\* and the accumulator is reset.
C12_CreateFailure ==
    [][(/\ Completes
        /\ last_direction = NoneDir
        /\ api'.current # <<"room", SeenId>>
        /\ api'.rooms \in {None, <<>>}
        /\ api'.created = PyFalse)
       => /\ Ops(calls') = <<"getCurrentRoom", "searchRooms", "createRoom">>
          /\ calls'[3].args = <<SeenId, SeenName, 0, 0, 0>>
          /\ Echoes(CommitOut(out')) = <<>>
          /\ out'[Len(out')] = Entry("log", "[PY]", "create_room returned false")
          /\ Logs(CommitOut(out')) = CommitOut(out')
          /\ AccEmpty']_vars

\* createRoom failed with the debug variable on, and the commit only logged
C12_Witness ==
    /\ Ops(calls) = <<"getCurrentRoom", "searchRooms", "createRoom">>
    /\ calls[3].ret = PyFalse
    /\ automapper_debug = "true"
    /\ out[Len(out)] = Entry("log", "[PY]", "create_room returned false")
    /\ AccEmpty

-----------------------------------------------------------------------------
(* C13 *)

\* C13: no pending direction, the store's current room id differs from the
\* observed id and searchRooms returns at least one room: the commit calls
\* setCurrentRoom(id), then addUnexploredExits(id, exits) with the whole
\* observed exit list, and neither createRoom nor setRoomZone.
C13_RoomFound ==
    [][(/\ Completes
        /\ last_direction = NoneDir
        /\ api'.current # <<"room", SeenId>>
        /\ api'.rooms \notin {None, <<>>})
       => /\ Ops(calls') = <<"getCurrentRoom", "searchRooms", "setCurrentRoom",
                             "addUnexploredExits">>
          /\ calls'[2].args = <<SeenId>>
          /\ calls'[3].args = <<SeenId>>
          /\ calls'[4].args = <<SeenId, SeenExits>>
          /\ AccEmpty']_vars

\* a known room was made current and given all five observed exits
C13_Witness ==
    /\ Ops(calls) = <<"getCurrentRoom", "searchRooms", "setCurrentRoom", "addUnexploredExits">>
    /\ calls[2].ret = <<"r1">>
    /\ calls[4].args = <<Str_5001, <<"north", "south", "east", "down", "up">>>>
    /\ AccEmpty

-----------------------------------------------------------------------------
(* C14 *)

\* w is word written in some capitalisation
WrittenAs(w, word) ==
    /\ Len(w) = Len(word)
    /\ \A i \in DOMAIN word : w[i] = word[i] \/ <<w[i], word[i]>> \in CasePairs

\* C14: a captured word that is one of the six movement words in any
\* capitalisation records that word's direction (and clears the room
\* fragments); a missing or empty capture, or a word not in the phrase
\* table, changes none of the four accumulator fields; no store call is made
\* either way.
C14_MovementDecoder ==
    [][event'.cb = "movement"
       => LET w == event'.g1
          IN  /\ calls' = <<>>
              /\ IF Present(w) /\ \E p \in directions : WrittenAs(w, p[1])
                 THEN /\ \E p \in directions : WrittenAs(w, p[1]) /\ last_direction' = p[2]
                      /\ pending_room_id' = None
                      /\ pending_room_name' = None
                      /\ pending_exits' = None
                 ELSE /\ last_direction' = last_direction
                      /\ pending_room_id' = pending_room_id
                      /\ pending_room_name' = pending_room_name
                      /\ pending_exits' = pending_exits]_vars

\* the word for east, written with capitals inside, replaced a pending "up"
\* with "east"
C14_Witness ==
    /\ event = Event("movement", <<"ru_v", "RU_O", "ru_s", "RU_T", "ru_o", "RU_K">>, None)
    /\ last_direction = "east"
    /\ pending_room_id = None

\* a word the table does not hold left a buffered room line and a pending
\* direction as they were
C14_WitnessMiss ==
    /\ event = Event("movement", W_prygnul, None)
    /\ last_direction = "up"
    /\ pending_room_id = Str_9
    /\ pending_room_name = <<"d">>

-----------------------------------------------------------------------------
(* Sessions with their history: the three triggers fire in any order on a  *)
(* few lines of each kind, and `hist` records what the delivered lines     *)
(* amount to.                                                              *)

\* a movement word of the phrase table, in any capitalisation
Recognized(w) == Present(w) /\ \E p \in directions : WrittenAs(w, p[1])

DirectionOf(w) == (CHOOSE p \in directions : WrittenAs(w, p[1]))[2]

\* the history after the line ev has been delivered
Delivered(h, ev) ==
    IF ev.cb = "movement" /\ Recognized(ev.g1)
    THEN [h EXCEPT !.moved = DirectionOf(ev.g1), !.id = None, !.name = None,
                   !.exits = None, !.committed = FALSE]
    ELSE IF ev.cb = "room" /\ TitlePasses(ev.g1, ev.g2)
    THEN [h EXCEPT !.id = ev.g2, !.name = Trimmed(ev.g1), !.title_since_commit = TRUE]
    ELSE IF ev.cb = "exits" /\ Present(ev.g1)
    THEN [h EXCEPT !.exits = decode_exits(ev.g1),
                   !.exits_since_commit = @ \/ decode_exits(ev.g1) # <<>>]
    ELSE h

\* the history after a callback that called the store
Committed(h) ==
    [h EXCEPT !.committed = TRUE, !.title_since_commit = FALSE,
              !.exits_since_commit = FALSE]

\* the history after the callback that delivered ev has returned
Observe(h, ev, cs) == IF cs # <<>> THEN Committed(Delivered(h, ev)) ELSE Delivered(h, ev)

\* an accepted line, one that is trimmed, a decoration line, one without id
HistoryRoomLines ==
    {<<<<"P">>, Str_7>>, <<<<" ", "d">>, Str_9>>, <<<<":", "P">>, Str_7>>, <<<<"P">>, None>>}

\* no capture, no known glyph, one exit, two exits
HistoryExitLines == {None, <<"(", ")">>, <<"ru_s">>, <<"ru_s", "RU_YU">>}

HistoryMoveWords == {W_sever, W_YUG, W_prygnul}

HistoryRoomLine ==
    /\ \E l \in HistoryRoomLines : on_room_trigger(l[1], l[2])
    /\ hist' = Observe(hist, event', calls')

HistoryExitsLine ==
    /\ \E exits_str \in HistoryExitLines : on_exits_trigger(exits_str)
    /\ hist' = Observe(hist, event', calls')

HistoryMovementLine ==
    /\ \E dir_text \in HistoryMoveWords : on_movement_trigger(dir_text)
    /\ hist' = Observe(hist, event', calls')

HistoryNext == HistoryRoomLine \/ HistoryExitsLine \/ HistoryMovementLine

SpecHistory == Init /\ [][HistoryNext]_vars

-----------------------------------------------------------------------------
(* C15 *)

\* how many calls of cs are calls of op
Count(cs, op) == Cardinality({i \in DOMAIN cs : cs[i].op = op})

\* C15: one callback issues at most one handleMovement call and at most one
\* createRoom call; and a callback that calls the store at all has been
\* preceded, since the last callback that called the store (or since load),
\* by the delivery of both an accepted title+id line and an exits line with
\* at least one exit, its own line counted.
C15_AtMostOnce ==
    [][/\ Count(calls', "handleMovement") <= 1
       /\ Count(calls', "createRoom") <= 1
       /\ calls' # <<>>
            => /\ Delivered(hist, event').title_since_commit
               /\ Delivered(hist, event').exits_since_commit]_vars

\* a second commit of the session: the store was called again although the
\* one before had already been a commit, after new lines of both kinds
C15_Witness ==
    /\ Count(calls, "createRoom") = 1
    /\ hist.committed
    /\ hist.moved = NoneDir
    /\ hist.id = Str_9
    /\ event.cb = "exits"

-----------------------------------------------------------------------------
(* C16 *)

\* the calls of cs without what the store answered
Bare(cs) == [i \in DOMAIN cs |-> <<cs[i].op, cs[i].args>>]

\* The store calls of a commit as a function of the completed observation
\* and of what the store answers, with no reference to the order in which the
\* fragments came.
ExpectedCalls(direction, id, name, exits, a) ==
    LET zone == <<"setRoomZone", <<id, zone_label(zone_of(id))>>>>
        current == <<"setCurrentRoom", <<id>>>>
        unexplored == <<"addUnexploredExits", <<id, exits>>>>
    IN  IF direction # NoneDir
        THEN <<<<"handleMovement", <<direction, name, exits, id>>>>>>
                \o (IF Present(a.room_info) THEN <<zone>> ELSE <<>>)
        ELSE <<<<"getCurrentRoom", <<>>>>>>
                \o (IF a.current = <<"room", id>> THEN <<>>
                    ELSE <<<<"searchRooms", <<id>>>>>>
                            \o (IF Present(a.rooms) THEN <<current, unexplored>>
                                ELSE <<<<"createRoom", <<id, name, 0, 0, 0>>>>>>
                                        \o (IF a.created = PyTrue
                                            THEN <<zone, current, unexplored>>
                                            ELSE <<>>)))

\* no room fragment is buffered (a pending direction may be)
NoFragments == pending_room_id = None /\ pending_room_name = None /\ pending_exits = None

\* C16: the fragments may come in either order.  From a state with no room
\* fragment buffered, the first line (an accepted title+id line, or an exits
\* line) is buffered as it is, calls nothing and leaves the pending direction;
\* and whichever line then completes the observation, the store calls and
\* their arguments are the same function of the pending direction, the id,
\* the trimmed title, the decoded exits and the store's answers, and the
\* accumulator ends empty.
C16_EitherOrder ==
    [][/\ (NoFragments /\ event'.cb = "room" /\ TitlePasses(event'.g1, event'.g2))
            => /\ calls' = <<>>
               /\ pending_room_id' = event'.g2
               /\ pending_room_name' = Trimmed(event'.g1)
               /\ pending_exits' = None
               /\ last_direction' = last_direction
       /\ (NoFragments /\ event'.cb = "exits" /\ Present(event'.g1))
            => /\ calls' = <<>>
               /\ pending_exits' = decode_exits(event'.g1)
               /\ pending_room_id' = None
               /\ pending_room_name' = None
               /\ last_direction' = last_direction
       /\ Completes
            => /\ Bare(calls') = ExpectedCalls(last_direction, SeenId, SeenName,
                                               SeenExits, api')
               /\ AccEmpty']_vars

\* exits first: a title+id line completed the observation of room 5001 and
\* the room was created
C16_Witness ==
    /\ event = Event("room", <<"P", " ", "d", " ">>, Str_5001)
    /\ Bare(calls) = ExpectedCalls(NoneDir, Str_5001, <<"P", " ", "d">>,
                                   <<"north", "south">>,
                                   [current |-> None, rooms |-> None,
                                    created |-> PyTrue, room_info |-> None])
    /\ Len(calls) = 6
    /\ AccEmpty

\* title first: an exits line completed the same observation, with the same
\* calls
C16_WitnessTitleFirst ==
    /\ event = Event("exits", <<"ru_s", "RU_S", "RU_YU">>, None)
    /\ Bare(calls) = ExpectedCalls(NoneDir, Str_5001, <<"P", " ", "d">>,
                                   <<"north", "south">>,
                                   [current |-> None, rooms |-> None,
                                    created |-> PyTrue, room_info |-> None])
    /\ Len(calls) = 6
    /\ AccEmpty

-----------------------------------------------------------------------------
(* C17 *)

\* While no commit has followed the latest recognized movement (or module
\* load), the accumulator holds that movement's direction and the latest
\* fragment of each kind delivered since: nothing has expired.
NothingExpired ==
    ~hist.committed
        => /\ last_direction = hist.moved
           /\ pending_room_id = hist.id
           /\ pending_room_name = hist.name
           /\ pending_exits = hist.exits

\* C17: the accumulator has no expiry.  A callback that neither recognizes a
\* movement nor commits keeps the pending direction and every buffered
\* fragment, except that an accepted title+id line replaces the title and id
\* and an exits line replaces the exits; so until a commit follows the latest
\* recognized movement, the accumulator holds its direction and the latest
\* fragments delivered since; and the commit that follows it passes that
\* direction to handleMovement.
C17_NoExpiry ==
    [][/\ (~(event'.cb = "movement" /\ Recognized(event'.g1)) /\ calls' = <<>>)
            => /\ last_direction' = last_direction
               /\ pending_room_id' =
                      IF event'.cb = "room" /\ TitlePasses(event'.g1, event'.g2)
                      THEN event'.g2 ELSE pending_room_id
               /\ pending_room_name' =
                      IF event'.cb = "room" /\ TitlePasses(event'.g1, event'.g2)
                      THEN Trimmed(event'.g1) ELSE pending_room_name
               /\ pending_exits' =
                      IF event'.cb = "exits" /\ Present(event'.g1)
                      THEN decode_exits(event'.g1) ELSE pending_exits
       /\ NothingExpired'
       /\ (calls' # <<>> /\ ~hist.committed /\ hist.moved # NoneDir)
            => /\ calls'[1].op = "handleMovement"
               /\ calls'[1].args[1] = hist.moved]_vars

\* a direction recorded by a movement survived a title+id line, an exits line
\* without exits and an unknown movement word, none of which completed the room
C17_Witness ==
    /\ event = Event("movement", W_prygnul, None)
    /\ hist.moved = "south"
    /\ ~hist.committed
    /\ last_direction = "south"
    /\ pending_room_id = Str_7
    /\ pending_exits = <<>>

\* and was the direction of the commit that came at last
C17_WitnessCommit ==
    /\ Len(calls) > 0
    /\ calls[1].op = "handleMovement"
    /\ calls[1].args[1] = "south"
    /\ hist.moved = "south"
    /\ hist.committed

-----------------------------------------------------------------------------
(* C18 *)

\* C18: every handleMovement call is made while no commit has yet followed
\* the latest recognized movement, and its arguments are that movement's
\* direction and the latest title, exits and id delivered after that
\* movement (the line being delivered counted), all of them present.
C18_FreshFragments ==
    [][\A i \in DOMAIN calls' :
          calls'[i].op = "handleMovement"
          => LET h == Delivered(hist, event')
             IN  /\ ~hist.committed
                 /\ h.moved # NoneDir
                 /\ Present(h.name)
                 /\ Present(h.id)
                 /\ Present(h.exits)
                 /\ calls'[i].args = <<h.moved, h.name, h.exits, h.id>>]_vars

\* handleMovement was called for room 7 after a move north; the title and id
\* came after the movement and the exits line completed the room
C18_Witness ==
    /\ Len(calls) > 0
    /\ calls[1].op = "handleMovement"
    /\ calls[1].args = <<"north", <<"P">>, <<"north", "south">>, Str_7>>
    /\ hist.moved = "north"
    /\ hist.id = Str_7
    /\ event.cb = "exits"

-----------------------------------------------------------------------------
(* C19 *)

\* C19: between callbacks the accumulator is never complete: room_id,
\* room_name and a non-empty exits list are never all present.
C19_NeverComplete ==
    ~(Present(pending_room_id) /\ Present(pending_room_name) /\ Present(pending_exits))

\* an exits line completed the observation of room 5001, the store was
\* called, and the callback left nothing buffered
C19_Witness ==
    /\ event.cb = "exits"
    /\ Len(calls) > 0
    /\ calls[1].op = "handleMovement"
    /\ calls[1].args[4] = Str_5001
    /\ pending_room_id = None
    /\ pending_exits = None

\* the nearest the accumulator comes to complete: title and id buffered with
\* an exits line that decoded to no exit
C19_WitnessNear ==
    /\ Present(pending_room_id)
    /\ Present(pending_room_name)
    /\ pending_exits = <<>>

-----------------------------------------------------------------------------
(* C20 *)

\* C20: room_id is present if and only if room_name is present, and a
\* present room_name is a non-empty string that neither begins nor ends with
\* whitespace.
C20_IdWithName ==
    /\ pending_room_id # None <=> pending_room_name # None
    /\ pending_room_name # None
         => /\ pending_room_id # <<>>
            /\ Len(pending_room_name) > 0
            /\ ~IsSpace(pending_room_name[1])
            /\ ~IsSpace(pending_room_name[Len(pending_room_name)])

\* a title captured with a trailing blank is buffered without it, beside its id
C20_Witness ==
    /\ event = Event("room", <<"P", " ", "d", " ">>, Str_5001)
    /\ pending_room_id = Str_5001
    /\ pending_room_name = <<"P", " ", "d">>

====
